---- MODULE Spec2Model ----
(***************************************************************************)
(* Model of listener.py: the Listener class (Vosk speech-to-text capture). *)
(* One caller thread drives listen / speech_waiting / recognize /          *)
(* is_listening / stop_listening; every listen() that passes its guard     *)
(* starts a daemon thread executing run().  Python executes the threads    *)
(* interleaved: the steps below are cut at the reads and writes of the     *)
(* attributes the threads share.  The audio device (pyaudio) and the       *)
(* decoder (vosk) are external: their answers are nondeterministic.        *)
(***************************************************************************)
EXTENDS Integers, Sequences, FiniteSets, TLC

\* ---- bounds of the model ----
MaxThreads == 2          \* threads listen() may start in one behaviour
MaxTime == 4             \* last reading of the monotonic clock
MaxLateReads == 2        \* frame reads counted after a stop signal
MaxOverlapTime == 3      \* last reading of the clock while sessions overlap

\* constructor arguments (listener.py:26,30,31), in clock ticks
RecordTimeoutChoices == {2}
MinUtteranceChoices == {1, 2}
EndSilenceChoices == {1}

Threads == 1..MaxThreads
None == 0                \* Python None for _stream, _thread and the time locals

\* ---- texts ----
\* A decoder answer after json.loads(...).get(...).strip(): the empty string,
\* or a text that remembers the decoder call that returned it (call), the
\* session thread that asked for it (by), and whether the last frame behind
\* it was read or decoded with the stop signal set (late).
EmptyText == [call |-> "empty", by |-> 0, late |-> FALSE]
Text(call, by, late) == [call |-> call, by |-> by, late |-> late]
Truthy(text) == text /= EmptyText

VARIABLES
  _listening,              \* self._listening
  _stop_event,             \* self._stop_event (is_set)
  _stream,                 \* self._stream: None or the thread that opened it
  _thread,                 \* self._thread: None or the last thread started
  _results_q,              \* the queue self._results_q currently names
  _recognizer,             \* sessions whose speech the decoder holds
  record_timeout,
  min_utterance_seconds,
  end_silence_seconds,
  now,                     \* time.monotonic()
  caller,                  \* the caller thread: position, call in progress
  thr,                     \* per thread: position in run() and its locals
  hist                     \* per thread: what the session has done so far

vars == <<_listening, _stop_event, _stream, _thread, _results_q, _recognizer,
          record_timeout, min_utterance_seconds, end_silence_seconds,
          now, caller, thr, hist>>

params == <<record_timeout, min_utterance_seconds, end_silence_seconds>>

\* the locals of run() before the thread exists
InitThread ==
  [pc |-> "none", ready_callback |-> FALSE, start_time |-> None,
   last_speech_time |-> None, utterance_started |-> None,
   partial_seen |-> FALSE, late |-> FALSE, text |-> EmptyText]

\* what a running session has done so far: how its _open_stream() call
\* ended ("no": not called yet, "ok": returned, "failed": raised), the calls
\* of the ready callback, whether a frame read was attempted, whether
\* AcceptWaveform was ever True, the clock reading of the cycle whose silence
\* check (line 112) passed, the answer of the FinalResult() of line 114, the
\* texts the session has put, how the session left its loop ("stop": line 87
\* found the stop signal set, "timeout": line 89, "final": line 99,
\* "silence": line 120, "fault": an exception, there or later), the answer
\* of the FinalResult() of line 124, the FinalResult() calls it
\* has made (lines 114 and 124), and, while the session has not left its
\* loop, whether stop_listening() has set the stop signal with this session's
\* thread in self._thread and the frame reads the session has begun since
\* then (counted up to MaxLateReads), and whether a frame read of the session
\* has raised.
InitHist ==
  [opened |-> "no", ready |-> 0, reads |-> FALSE, accepted |-> FALSE,
   cycle |-> None, final |-> EmptyText, puts |-> <<>>,
   exit |-> "no", forced |-> EmptyText, finals |-> 0,
   signalled |-> FALSE, late_reads |-> 0, read_failed |-> FALSE]

\* the caller: pc is the line it is at ("idle" between calls), cb the
\* argument of the listen() in progress, stopped whether stop_listening()
\* has returned and no listen() has returned since, obs whether
\* is_listening() has returned False since the last listen() started a thread,
\* noop whether the last listen() or stop_listening() call was a listen()
\* that returned at line 69.
InitCaller ==
  [pc |-> "idle", cb |-> FALSE, stopped |-> FALSE, obs |-> FALSE,
   noop |-> FALSE]

\* Listener.__init__, lines 52-64
Construct ==
  /\ _listening = FALSE
  /\ _stop_event = FALSE
  /\ _stream = None
  /\ _thread = None
  /\ _results_q = <<>>
  /\ _recognizer = {}
  /\ now = 1
  /\ caller = InitCaller
  /\ thr = [t \in Threads |-> InitThread]
  /\ hist = [t \in Threads |-> InitHist]

\* A listener whose silence window and minimum utterance are zero: the
\* segmenter takes every path within one reading of the clock.
Init ==
  /\ Construct
  /\ record_timeout = 1
  /\ min_utterance_seconds = 0
  /\ end_silence_seconds = 0

\* A listener with the timing arguments drawn from the choices above.
InitSeg ==
  /\ Construct
  /\ record_timeout \in RecordTimeoutChoices
  /\ min_utterance_seconds \in MinUtteranceChoices
  /\ end_silence_seconds \in EndSilenceChoices

\* the history h of a session that leaves its loop
Left(h, how) ==
  [h EXCEPT !.exit = how, !.signalled = FALSE, !.late_reads = 0]

Alive(t) == thr[t].pc \notin {"none", "done"}
Started == {t \in Threads : thr[t].pc /= "none"}
AliveThreads == {t \in Threads : Alive(t)}

\* time.monotonic() advances, up to the reading max
TickTo(max) ==
  /\ now < max
  /\ now' = now + 1
  /\ UNCHANGED <<_listening, _stop_event, _stream, _thread, _results_q,
                 _recognizer, params, caller, thr, hist>>

Tick == TickTo(MaxTime)

\* ---- the caller thread ----
unchangedByCaller == <<_recognizer, params, now>>

FreeThreads == {t \in Threads : thr[t].pc = "none"}
NextThread == CHOOSE t \in FreeThreads : \A u \in FreeThreads : t <= u

\* listen() without the guard of line 68
listen_unguarded(ready_callback) ==
  /\ caller.pc = "idle"
  /\ FreeThreads /= {}
  /\ caller' = [caller EXCEPT !.pc = "L71", !.cb = ready_callback,
                              !.obs = FALSE, !.noop = FALSE]
  /\ UNCHANGED <<_listening, _stop_event, _stream, _thread, _results_q,
                 thr, hist>>
  /\ UNCHANGED unchangedByCaller

\* listen(), line 68: "if self._listening: return"
listen(ready_callback) ==
  /\ caller.pc = "idle"
  /\ FreeThreads /= {}
  /\ caller' = IF _listening
                 THEN [caller EXCEPT !.stopped = FALSE, !.noop = TRUE]
                 ELSE [caller EXCEPT !.pc = "L71", !.cb = ready_callback,
                                     !.obs = FALSE, !.noop = FALSE]
  /\ UNCHANGED <<_listening, _stop_event, _stream, _thread, _results_q,
                 thr, hist>>
  /\ UNCHANGED unchangedByCaller

\* line 71: self._stop_event.clear()
listen_L71 ==
  /\ caller.pc = "L71"
  /\ _stop_event' = FALSE
  /\ caller' = [caller EXCEPT !.pc = "L72"]
  /\ UNCHANGED <<_listening, _stream, _thread, _results_q, thr, hist>>
  /\ UNCHANGED unchangedByCaller

\* line 72: self._results_q = queue.Queue()
listen_L72 ==
  /\ caller.pc = "L72"
  /\ _results_q' = <<>>
  /\ caller' = [caller EXCEPT !.pc = "L133"]
  /\ UNCHANGED <<_listening, _stop_event, _stream, _thread, thr, hist>>
  /\ UNCHANGED unchangedByCaller

\* lines 133-134: self._thread = threading.Thread(target=run); start()
listen_L133 ==
  /\ caller.pc = "L133"
  /\ LET t == NextThread IN
       /\ _thread' = t
       /\ thr' = [thr EXCEPT ![t] = [InitThread EXCEPT !.pc = "L75",
                                       !.ready_callback = caller.cb]]
  /\ caller' = [caller EXCEPT !.pc = "idle", !.cb = FALSE, !.stopped = FALSE]
  /\ UNCHANGED <<_listening, _stop_event, _stream, _results_q, hist>>
  /\ UNCHANGED unchangedByCaller

\* speech_waiting(), line 137: not self._results_q.empty()
SpeechWaiting == _results_q /= <<>>

speech_waiting ==
  /\ caller.pc = "idle"
  /\ UNCHANGED vars

\* recognize(), lines 141-145: self._results_q.get(timeout=0.5), "" on Empty.
\* get() removes the item it returns.  Its bounded wait is the interleaving
\* of thread steps before this step.
Recognized == IF _results_q /= <<>> THEN Head(_results_q) ELSE EmptyText

recognize ==
  /\ caller.pc = "idle"
  /\ _results_q' = IF _results_q /= <<>> THEN Tail(_results_q) ELSE _results_q
  /\ UNCHANGED <<_listening, _stop_event, _stream, _thread, caller, thr, hist>>
  /\ UNCHANGED unchangedByCaller

\* is_listening(), line 148
IsListening == _listening

is_listening ==
  /\ caller.pc = "idle"
  /\ caller' = [caller EXCEPT
                  !.obs = @ \/ (_thread /= None /\ ~IsListening)]
  /\ UNCHANGED <<_listening, _stop_event, _stream, _thread, _results_q,
                 thr, hist>>
  /\ UNCHANGED unchangedByCaller

\* stop_listening(), line 151: self._stop_event.set()
stop_listening ==
  /\ caller.pc = "idle"
  /\ _stop_event' = TRUE
  /\ caller' = [caller EXCEPT !.pc = "L152", !.noop = FALSE]
  /\ hist' = IF _thread /= None /\ Alive(_thread)
                  /\ hist[_thread].exit = "no"
               THEN [hist EXCEPT ![_thread].signalled = TRUE]
               ELSE hist
  /\ UNCHANGED <<_listening, _stream, _thread, _results_q, thr>>
  /\ UNCHANGED unchangedByCaller

\* lines 152-153: "if self._thread and self._thread.is_alive(): join(1.0)".
\* join returns when the thread has ended, or when the timeout has expired
\* with the thread still alive: the caller goes on in either case.
stop_listening_L152 ==
  /\ caller.pc = "L152"
  /\ caller' = [caller EXCEPT !.pc = "L154"]
  /\ UNCHANGED <<_listening, _stop_event, _stream, _thread, _results_q,
                 thr, hist>>
  /\ UNCHANGED unchangedByCaller

\* _close_stream(), lines 172-181: stop_stream() and close() swallow their
\* faults, self._stream = None
CloseStream == _stream' = None

\* line 154: self._close_stream(), on the caller's thread
stop_listening_L154 ==
  /\ caller.pc = "L154"
  /\ CloseStream
  /\ caller' = [caller EXCEPT !.pc = "L155"]
  /\ UNCHANGED <<_listening, _stop_event, _thread, _results_q, thr, hist>>
  /\ UNCHANGED unchangedByCaller

\* line 155: self._listening = False
stop_listening_L155 ==
  /\ caller.pc = "L155"
  /\ _listening' = FALSE
  /\ caller' = [caller EXCEPT !.pc = "idle", !.stopped = TRUE]
  /\ UNCHANGED <<_stop_event, _stream, _thread, _results_q, thr, hist>>
  /\ UNCHANGED unchangedByCaller

\* ---- a session thread: run(), lines 74-131 ----
SetThr(t, rec) == thr' = [thr EXCEPT ![t] = rec]
SetHist(t, rec) == hist' = [hist EXCEPT ![t] = rec]
At(t, line) == thr[t].pc = line
Goto(t, line) == SetThr(t, [thr[t] EXCEPT !.pc = line])

\* line 75: self._listening = True
run_L75(t) ==
  /\ At(t, "L75")
  /\ _listening' = TRUE
  /\ Goto(t, "L77")
  /\ UNCHANGED <<_stop_event, _stream, _thread, _results_q, _recognizer,
                 params, now, caller, hist>>

\* line 77 -> _open_stream(), line 158: "if self._stream is not None: return"
open_stream_L158(t) ==
  /\ At(t, "L77")
  /\ IF _stream /= None
       THEN /\ Goto(t, "L78")
            /\ SetHist(t, [hist[t] EXCEPT !.opened = "ok"])
       ELSE /\ Goto(t, "L161")
            /\ UNCHANGED hist
  /\ UNCHANGED <<_listening, _stop_event, _stream, _thread, _results_q,
                 _recognizer, params, now, caller>>

\* _open_stream() with the device's refusal swallowed: run() goes on to the
\* ready callback although nothing was opened.
open_stream_L161_swallowed(t) ==
  /\ At(t, "L161")
  /\ \/ /\ _stream' = t
        /\ Goto(t, "L78")
        /\ SetHist(t, [hist[t] EXCEPT !.opened = "ok"])
     \/ /\ _stream' = _stream
        /\ Goto(t, "L78")
        /\ SetHist(t, [hist[t] EXCEPT !.opened = "failed"])
  /\ UNCHANGED <<_listening, _stop_event, _thread, _results_q, _recognizer,
                 params, now, caller>>

\* lines 161-169: self._stream = self._audio.open(...); start_stream().
\* The device may refuse the open (nothing is assigned) or the start.
open_stream_L161(t) ==
  /\ At(t, "L161")
  /\ \/ /\ _stream' = t
        /\ Goto(t, "L78")
        /\ SetHist(t, [hist[t] EXCEPT !.opened = "ok"])
     \/ /\ _stream' = _stream
        /\ Goto(t, "L130")
        /\ SetHist(t, Left([hist[t] EXCEPT !.opened = "failed"], "fault"))
     \/ /\ _stream' = t
        /\ Goto(t, "L130")
        /\ SetHist(t, Left([hist[t] EXCEPT !.opened = "failed"], "fault"))
  /\ UNCHANGED <<_listening, _stop_event, _thread, _results_q, _recognizer,
                 params, now, caller>>

\* lines 78-84 with the fault of the ready callback swallowed: run() goes on
\* to its loop
run_L78_fault_swallowed(t) ==
  /\ At(t, "L78")
  /\ \/ /\ SetThr(t, [thr[t] EXCEPT !.pc = "L87", !.start_time = now])
        /\ SetHist(t, [hist[t] EXCEPT
                         !.ready = IF thr[t].ready_callback THEN @ + 1 ELSE @])
     \/ /\ thr[t].ready_callback
        /\ SetThr(t, [thr[t] EXCEPT !.pc = "L87", !.start_time = now])
        /\ SetHist(t, Left([hist[t] EXCEPT !.ready = @ + 1], "fault"))
  /\ UNCHANGED <<_listening, _stop_event, _stream, _thread, _results_q,
                 _recognizer, params, now, caller>>

\* lines 78-84: the ready callback (it may raise), then the locals
run_L78(t) ==
  /\ At(t, "L78")
  /\ \/ /\ SetThr(t, [thr[t] EXCEPT !.pc = "L87", !.start_time = now])
        /\ SetHist(t, [hist[t] EXCEPT
                         !.ready = IF thr[t].ready_callback THEN @ + 1 ELSE @])
     \/ /\ thr[t].ready_callback
        /\ Goto(t, "L130")
        /\ SetHist(t, Left([hist[t] EXCEPT !.ready = @ + 1], "fault"))
  /\ UNCHANGED <<_listening, _stop_event, _stream, _thread, _results_q,
                 _recognizer, params, now, caller>>

\* the loop of line 87 without the record_timeout check of lines 88-89
run_L87_no_timeout(t) ==
  /\ At(t, "L87")
  /\ IF _stop_event
       THEN /\ Goto(t, "L123")
            /\ SetHist(t, Left(hist[t], "stop"))
       ELSE /\ Goto(t, "L91")
            /\ UNCHANGED hist
  /\ UNCHANGED <<_listening, _stop_event, _stream, _thread, _results_q,
                 _recognizer, params, now, caller>>

\* lines 87-89: the loop condition and the record_timeout check
run_L87(t) ==
  /\ At(t, "L87")
  /\ IF _stop_event
       THEN /\ Goto(t, "L123")
            /\ SetHist(t, Left(hist[t], "stop"))
       ELSE IF (now - thr[t].start_time) > record_timeout
              THEN /\ Goto(t, "L123")
                   /\ SetHist(t, Left(hist[t], "timeout"))
              ELSE /\ Goto(t, "L91")
                   /\ UNCHANGED hist
  /\ UNCHANGED <<_listening, _stop_event, _stream, _thread, _results_q,
                 _recognizer, params, now, caller>>

\* the answers Result() / FinalResult() may give for the audio held
Answers(call, t, held, late) ==
  {EmptyText} \cup (IF held = {} THEN {} ELSE {Text(call, t, late)})

\* the session's history once it has begun the frame read of line 91
ReadBegun(t) ==
  [hist[t] EXCEPT !.reads = TRUE,
                  !.late_reads = IF hist[t].signalled /\ @ < MaxLateReads
                                   THEN @ + 1 ELSE @]

\* lines 91-112, one loop body up to the silence check:
\*   data = self._stream.read(4000, ...)   (self._stream may be None by now:
\*                                          AttributeError; the read may fail)
\*   self._recognizer.AcceptWaveform(data) (the decoder may raise)
\*   Result() or PartialResult(), the segmenter's bookkeeping.
\* The read itself touches no shared attribute, so it is one step with the
\* decoding of its frame.
run_L91(t) ==
  /\ At(t, "L91")
  /\ LET me == thr[t] IN
     IF _stream = None
       THEN /\ Goto(t, "L130")
            /\ SetHist(t, Left(hist[t], "fault"))
            /\ UNCHANGED _recognizer
       ELSE
         \/ \* the read raises
            /\ Goto(t, "L130")
            /\ SetHist(t, Left([ReadBegun(t) EXCEPT !.read_failed = TRUE],
                               "fault"))
            /\ UNCHANGED _recognizer
         \/ \* the decoder raises
            /\ Goto(t, "L130")
            /\ SetHist(t, Left(ReadBegun(t), "fault"))
            /\ UNCHANGED _recognizer
         \/ \E audio \in {"speech", "silence"} :
            LET fed == _recognizer \cup (IF audio = "speech" THEN {t} ELSE {})
            IN
            \/ \* AcceptWaveform is True: lines 95-99
               /\ _recognizer' = {}
               /\ \E text \in Answers("Result", t, fed, _stop_event) :
                    IF Truthy(text)
                      THEN /\ SetThr(t, [me EXCEPT !.pc = "L98", !.text = text])
                           /\ SetHist(t, Left([ReadBegun(t) EXCEPT
                                                   !.accepted = TRUE], "final"))
                      ELSE /\ Goto(t, "L87")
                           /\ SetHist(t, [ReadBegun(t) EXCEPT !.accepted = TRUE])
            \/ \* AcceptWaveform is False, a non-empty partial: lines 101-108
               /\ fed /= {}
               /\ _recognizer' = fed
               /\ SetThr(t, [me EXCEPT !.pc = "L87",
                               !.partial_seen = TRUE,
                               !.last_speech_time = now,
                               !.utterance_started = IF @ = None THEN now ELSE @])
               /\ SetHist(t, ReadBegun(t))
            \/ \* AcceptWaveform is False, an empty partial: lines 109-112
               /\ _recognizer' = fed
               /\ IF /\ me.partial_seen
                     /\ me.last_speech_time /= None
                     /\ (now - me.last_speech_time) >= end_silence_seconds
                    THEN /\ SetThr(t, [me EXCEPT !.pc = "L114",
                                                 !.late = _stop_event])
                         /\ SetHist(t, Left([ReadBegun(t) EXCEPT
                                                 !.cycle = now], "silence"))
                    ELSE /\ Goto(t, "L87")
                         /\ SetHist(t, ReadBegun(t))
  /\ UNCHANGED <<_listening, _stop_event, _stream, _thread, _results_q,
                 params, now, caller>>

\* self._results_q.put(text): the queue is looked up when put runs
Put(t, to) ==
  /\ _results_q' = Append(_results_q, thr[t].text)
  /\ SetThr(t, [thr[t] EXCEPT !.pc = to, !.text = EmptyText])
  /\ SetHist(t, [hist[t] EXCEPT !.puts = Append(@, thr[t].text)])
  /\ UNCHANGED <<_listening, _stop_event, _stream, _thread, _recognizer,
                 params, now, caller>>

\* lines 98-99: put(text); break
run_L98(t) == At(t, "L98") /\ Put(t, "L123")

\* a gate that measures the speech burst alone, from the first to the last
\* non-empty partial
Gate_burst_only(me, ftext) ==
  /\ Truthy(ftext)
  /\ me.utterance_started /= None
  /\ (me.last_speech_time - me.utterance_started) >= min_utterance_seconds

\* the minimum-utterance gate of line 118
Gate(me, ftext) ==
  /\ Truthy(ftext)
  /\ me.utterance_started /= None
  /\ (now - me.utterance_started) >= min_utterance_seconds

\* lines 114-120: FinalResult() after the silence, the gate, break
run_L114(t) ==
  /\ At(t, "L114")
  /\ LET me == thr[t] IN
     \/ /\ Goto(t, "L130")
        /\ SetHist(t, [hist[t] EXCEPT !.exit = "fault", !.finals = @ + 1])
        /\ UNCHANGED _recognizer
     \/ /\ _recognizer' = {}
        /\ \E ftext \in Answers("FinalResult", t, _recognizer, me.late) :
             /\ SetHist(t, [hist[t] EXCEPT !.final = ftext,
                                           !.finals = @ + 1])
             /\ IF Gate(me, ftext)
                  THEN SetThr(t, [me EXCEPT !.pc = "L119", !.text = ftext,
                                            !.late = FALSE])
                  ELSE SetThr(t, [me EXCEPT !.pc = "L123", !.late = FALSE])
  /\ UNCHANGED <<_listening, _stop_event, _stream, _thread, _results_q,
                 params, now, caller>>

\* line 119: put(ftext)
run_L119(t) == At(t, "L119") /\ Put(t, "L123")

\* lines 123-126: "Finalize if nothing queued"
run_L123(t) ==
  /\ At(t, "L123")
  /\ IF _results_q = <<>> /\ ~_stop_event
       THEN \/ \* FinalResult() raises
               /\ Goto(t, "L130")
               /\ SetHist(t, [hist[t] EXCEPT !.exit = "fault",
                                             !.finals = @ + 1])
               /\ UNCHANGED _recognizer
            \/ /\ _recognizer' = {}
               /\ \E ftext \in Answers("FinalResult", t, _recognizer, FALSE) :
                    /\ SetHist(t, [hist[t] EXCEPT !.forced = ftext,
                                                  !.finals = @ + 1])
                    /\ IF Truthy(ftext)
                         THEN SetThr(t, [thr[t] EXCEPT !.pc = "L127",
                                                       !.text = ftext])
                         ELSE Goto(t, "L130")
       ELSE /\ Goto(t, "L130")
            /\ UNCHANGED <<_recognizer, hist>>
  /\ UNCHANGED <<_listening, _stop_event, _stream, _thread, _results_q,
                 params, now, caller>>

\* line 127: put(ftext)
run_L127(t) == At(t, "L127") /\ Put(t, "L130")

\* line 130, finally: self._close_stream()
run_L130(t) ==
  /\ At(t, "L130")
  /\ CloseStream
  /\ Goto(t, "L131")
  /\ UNCHANGED <<_listening, _stop_event, _thread, _results_q, _recognizer,
                 params, now, caller, hist>>

\* line 131: self._listening = False; the thread ends
run_L131(t) ==
  /\ At(t, "L131")
  /\ _listening' = FALSE
  /\ SetThr(t, [InitThread EXCEPT !.pc = "done"])
  /\ SetHist(t, InitHist)
  /\ UNCHANGED <<_stop_event, _stream, _thread, _results_q, _recognizer,
                 params, now, caller>>

run(t) ==
  \/ run_L75(t) \/ open_stream_L158(t) \/ open_stream_L161(t) \/ run_L78(t)
  \/ run_L87(t) \/ run_L91(t) \/ run_L98(t) \/ run_L114(t) \/ run_L119(t)
  \/ run_L123(t) \/ run_L127(t) \/ run_L130(t) \/ run_L131(t)

\* The caller and the session threads, interleaved, within one reading of
\* the clock.
Next ==
  \/ \E cb \in BOOLEAN : listen(cb)
  \/ listen_L71 \/ listen_L72 \/ listen_L133
  \/ speech_waiting \/ recognize \/ is_listening
  \/ stop_listening \/ stop_listening_L152 \/ stop_listening_L154
  \/ stop_listening_L155
  \/ \E t \in Threads : run(t)

Spec == Init /\ [][Next]_vars

\* One session on its own, with the clock running: the caller calls listen()
\* once, polls, and never stops the session.
NextSeg ==
  \/ Tick
  \/ \E cb \in BOOLEAN : Started = {} /\ listen(cb)
  \/ listen_L71 \/ listen_L72 \/ listen_L133
  \/ speech_waiting \/ recognize \/ is_listening
  \/ \E t \in Threads : run(t)

SegSpec == InitSeg /\ [][NextSeg]_vars

\* Sessions that overlap, with the clock running: the caller calls listen()
\* whenever it likes and nothing else.
NextOverlap ==
  \/ TickTo(MaxOverlapTime)
  \/ \E cb \in BOOLEAN : listen(cb)
  \/ listen_L71 \/ listen_L72 \/ listen_L133
  \/ \E t \in Threads : run(t)

OverlapSpec == Init /\ [][NextOverlap]_vars

\* Sessions in turn, with the clock running: the caller calls listen() only
\* when no session thread is alive.
NextTurns ==
  \/ TickTo(MaxOverlapTime)
  \/ \E cb \in BOOLEAN : AliveThreads = {} /\ listen(cb)
  \/ listen_L71 \/ listen_L72 \/ listen_L133
  \/ speech_waiting \/ recognize \/ is_listening
  \/ stop_listening \/ stop_listening_L152 \/ stop_listening_L154
  \/ stop_listening_L155
  \/ \E t \in Threads : run(t)

TurnsSpec == Init /\ [][NextTurns]_vars

\* The single session of SegSpec under the scheduling the code relies on: the clock
\* advances, and a started thread keeps running (every frame read and every
\* decoder call returns).
LiveSpec ==
  /\ InitSeg
  /\ [][NextSeg]_vars
  /\ WF_vars(Tick)
  /\ \A t \in Threads : WF_vars(run(t))

\* ---- properties ----
Launches == caller.pc = "L133" /\ caller'.pc = "idle"

\* C1: two listen() calls with no stop_listening() and no session completion
\* in between launch only one session thread: whenever listen() starts a
\* thread and stop_listening() has not returned since the previous listen(),
\* the thread the previous listen() started has ended.
C1_SecondListenStartsNothing ==
  [][(Launches /\ ~caller.stopped /\ _thread /= None)
       => thr[_thread].pc = "done"]_vars

\* C2: after stop_listening() has returned and listen() is called again, the
\* stopped session's thread never runs next to the new one: when that
\* listen() starts its thread, no earlier session thread is still alive.
C2_NoThreadOutlivesStop ==
  [][(Launches /\ caller.stopped) => AliveThreads = {}]_vars

\* C3: between calls, is_listening() is true exactly from the launch of a
\* session by listen() until that session's thread has finished its teardown.
C3_ListeningWhileSessionAlive ==
  caller.pc = "idle" => (IsListening <=> (_thread /= None /\ Alive(_thread)))

\* C4: once the caller has seen is_listening() == False after a listen(), no
\* text is added to the result queue (until the next listen()).
C4_NoResultAfterIdleSeen ==
  [][caller.obs => Len(_results_q') <= Len(_results_q)]_vars

\* C5: a result is visible to the caller (speech_waiting() true, recognize()
\* non-empty) only after the session that produced it has fully exited: its
\* thread has ended, the stream is closed and is_listening() is false.
C5_ResultOnlyAfterExit ==
  (caller.pc = "idle" /\ SpeechWaiting)
    => /\ \A i \in DOMAIN _results_q : thr[_results_q[i].by].pc = "done"
       /\ _stream = None
       /\ ~IsListening

\* C6: after listen() has launched a session, recognize() never returns a
\* text produced by an earlier session: between calls every text in the
\* queue comes from the session the last listen() started.
C6_NoStaleResult ==
  caller.pc = "idle" => \A i \in DOMAIN _results_q : _results_q[i].by = _thread

\* C7: after stop_listening() has returned, recognize() never returns a
\* transcript of a frame read or decoded after the stop signal was set.
C7_NoResultFromLateFrame ==
  (caller.pc = "idle" /\ caller.stopped) => ~Recognized.late

\* C8: after stop_listening() has returned, is_listening() is false and stays
\* false until listen() is called again.
C8_StoppedStaysIdle ==
  (caller.pc = "idle" /\ caller.stopped) => ~IsListening

\* the lines of run() that are reached only through line 84
PastReady == {"L87", "L91", "L98", "L114", "L119", "L123", "L127"}

\* C9: in every session the ready callback, when supplied, is invoked exactly
\* once, after the session's _open_stream() has succeeded and before its
\* first frame read, and never in a session whose device open failed.
C9_ReadyOnceAfterOpenBeforeRead ==
  \A t \in Threads :
    /\ hist[t].ready <= 1
    /\ hist[t].ready = 1 => (thr[t].ready_callback /\ hist[t].opened = "ok")
    /\ hist[t].opened = "failed" => hist[t].ready = 0
    /\ (thr[t].ready_callback /\ (hist[t].reads \/ thr[t].pc \in PastReady))
         => hist[t].ready = 1
    /\ hist[t].reads => hist[t].opened = "ok"

\* a session with a callback has opened the device, called the callback once
\* and read frames, and is leaving
C9_Witness ==
  \E t \in Threads :
    /\ thr[t].pc = "L131"
    /\ thr[t].ready_callback
    /\ hist[t].opened = "ok"
    /\ hist[t].ready = 1
    /\ hist[t].reads

\* the session of thread t saw only partials, and the cycle whose silence
\* check passed came at least end_silence_seconds after the last non-empty
\* partial and at least min_utterance_seconds after the first one, and the
\* FinalResult() of that cycle was non-empty
Qualifies(t) ==
  /\ ~hist[t].accepted
  /\ hist[t].cycle /= None
  /\ thr[t].utterance_started /= None
  /\ (hist[t].cycle - thr[t].last_speech_time) >= end_silence_seconds
  /\ (hist[t].cycle - thr[t].utterance_started) >= min_utterance_seconds
  /\ Truthy(hist[t].final)

\* C10: a session in which the decoder returned only partials, non-empty ones
\* followed by empty ones up to a cycle with qualifying silence and utterance
\* duration, posts as its result exactly the non-empty text its forced
\* finalization returned: once past line 120 it has put that text and no
\* other.
C10_SilenceFinalizePostsFinalText ==
  \A t \in Threads :
    (Qualifies(t) /\ thr[t].pc \in {"L123", "L127", "L130", "L131"})
      => hist[t].puts = <<hist[t].final>>

\* the lines of run() after its loop
AfterLoop == {"L123", "L127", "L130", "L131"}

\* the session of thread t saw only partials; its speech burst, from the
\* first to the last non-empty partial, was shorter than
\* min_utterance_seconds, and the silence check passed at least
\* end_silence_seconds after the last non-empty partial
ShortBurst(t) ==
  /\ ~hist[t].accepted
  /\ hist[t].cycle /= None
  /\ thr[t].utterance_started /= None
  /\ (thr[t].last_speech_time - thr[t].utterance_started) < min_utterance_seconds
  /\ (hist[t].cycle - thr[t].last_speech_time) >= end_silence_seconds

\* C11: a session whose speech burst was shorter than min_utterance_seconds
\* and was followed by silence of at least end_silence_seconds ends without
\* a result: once past its loop it has put no text.
C11_ShortBurstGivesNoTranscript ==
  \A t \in Threads :
    (ShortBurst(t) /\ thr[t].pc \in AfterLoop) => hist[t].puts = <<>>

\* C12: a session that left its loop at the record_timeout check without
\* ever having seen a non-empty partial puts no text and never calls
\* FinalResult().
C12_SilentTimeoutNeverFinalizes ==
  \A t \in Threads :
    (hist[t].exit = "timeout" /\ ~thr[t].partial_seen)
      => (hist[t].finals = 0 /\ hist[t].puts = <<>>)

\* C13: every session that is not stopped eventually exits once
\* record_timeout has elapsed, whatever the segmenter has seen: a session in
\* its loop whose timeout lies within the clock's range ends with the stream
\* closed and is_listening() false.
C13_TimeoutEndsSession ==
  \A t \in Threads :
    (thr[t].pc = "L87" /\ thr[t].start_time + record_timeout < MaxTime)
      ~> (thr[t].pc = "done" /\ _stream = None /\ ~IsListening)

\* a session that saw non-empty partials, whose silence never qualified, has
\* left its loop at the record_timeout check and has closed the stream
C13_Witness ==
  \E t \in Threads :
    /\ thr[t].pc = "L131"
    /\ hist[t].exit = "timeout"
    /\ thr[t].partial_seen
    /\ hist[t].cycle = None
    /\ _stream = None

\* the session of thread t ended on a failed device open, or on a
\* FinalResult() call that raised
OpenOrDecoderFault(t) ==
  \/ hist[t].opened = "failed"
  \/ hist[t].exit = "fault" /\ hist[t].finals > 0

\* C14: when the device open fails or the decoder faults, the session leaves
\* a Failed result for the caller to read, distinct from the empty outcome:
\* at the end of such a session the queue holds a result of this session
\* that marks the failure.
C14_FaultIsReported ==
  \A t \in Threads :
    (thr[t].pc = "L131" /\ OpenOrDecoderFault(t))
      => \E i \in DOMAIN _results_q :
           _results_q[i].by = t /\ _results_q[i].call = "Failed"

\* the lines of listen() and stop_listening() the caller can be at; none of
\* them is reached by an exception
CallerLines == {"idle", "L71", "L72", "L133", "L152", "L154", "L155"}

\* C15: a fault raised inside a session aborts its loop with no further frame
\* read (the thread is in its finally block), the finally block closes the
\* stream (self._stream is None after line 130) and sets is_listening() to
\* false (line 131), and the caller's thread is only ever inside, or between,
\* its own calls.
C15_FaultContained ==
  /\ [](\A t \in Threads :
          hist[t].exit = "fault" => thr[t].pc \in {"L130", "L131"})
  /\ [](caller.pc \in CallerLines)
  /\ [][\A t \in Threads :
          (hist[t].exit = "fault" /\ thr'[t].pc /= thr[t].pc)
            => /\ thr[t].pc = "L130" => (thr'[t].pc = "L131" /\ _stream' = None)
               /\ thr[t].pc = "L131" => (thr'[t].pc = "done" /\ ~IsListening')]_vars

\* a session that has read frames ended on a fault and has closed the stream
C15_Witness ==
  \E t \in Threads :
    /\ thr[t].pc = "L131"
    /\ hist[t].exit = "fault"
    /\ hist[t].reads
    /\ _stream = None

\* a step that is a call of listen(): the caller goes on to line 71, or
\* returns at line 69
ListenCall ==
  /\ caller.pc = "idle"
  /\ \/ caller'.pc = "L71"
     \/ caller'.pc = "idle" /\ caller'.obs = caller.obs /\ caller' /= caller

\* C16: listen() called while is_listening() is true returns at once and
\* changes nothing: no thread is started, the result queue with whatever it
\* holds stays in place, and the stop signal is left as it is.
C16_ListenWhileListeningIsNoOp ==
  [][(ListenCall /\ IsListening)
       => /\ caller'.pc = "idle"
          /\ UNCHANGED <<_listening, _stop_event, _stream, _thread,
                         _results_q, thr>>]_vars

\* listen() has returned at line 69 with the stop signal set, and has left it
\* set; the session is still listening and no second thread was started
C16_Witness ==
  /\ caller.pc = "idle"
  /\ caller.noop
  /\ IsListening
  /\ _stop_event
  /\ AliveThreads /= {}
  /\ FreeThreads /= {}

\* a step that is a call of recognize() between sessions: no thread is alive
\* and the step changes neither the caller's position nor a thread
RecognizeCall ==
  /\ caller.pc = "idle"
  /\ AliveThreads = {}
  /\ UNCHANGED <<caller, thr>>

\* C17: recognize() is a peek: after a finished session it leaves the result
\* in place, so that the next recognize() returns the same text.
C17_RecognizeIsPeek ==
  [][RecognizeCall => (_results_q' = _results_q /\ Recognized' = Recognized)]_vars

\* C18: a session that is not stopped and leaves its loop at the
\* record_timeout check calls FinalResult() once and its result is the text
\* returned, if that is non-empty, and nothing otherwise; the minimum
\* utterance duration plays no part.
C18_TimeoutForceFinalizes ==
  \A t \in Threads :
    (hist[t].exit = "timeout" /\ thr[t].pc \in {"L130", "L131"})
      => /\ hist[t].finals = 1
         /\ hist[t].puts = IF Truthy(hist[t].forced)
                             THEN <<hist[t].forced>> ELSE <<>>

\* C19: a session whose loop exits because line 87 found the stop signal set
\* writes no result and does not call FinalResult(), also when the caller
\* calls listen() again while the session is still on its way out.
C19_StopExitWritesNothing ==
  \A t \in Threads :
    hist[t].exit = "stop" => (hist[t].puts = <<>> /\ hist[t].finals = 0)

\* C20: after stop_listening() has set the stop signal, the session it
\* targets (the thread in self._thread) begins at most one further frame
\* read, whatever the caller does next.
C20_AtMostOneReadAfterStop ==
  \A t \in Threads : hist[t].late_reads <= 1

\* C21: on every exit path the stream is closed before is_listening() goes
\* from true to false: between calls the caller never finds is_listening()
\* false while the stream is open.
C21_ClosedBeforeNotListening ==
  (caller.pc = "idle" /\ ~IsListening) => _stream = None

\* C22: a failed frame read is taken as "no audio this cycle": the session
\* does not end on it but goes on with the next iteration of its loop.
C22_FailedReadIsTransient ==
  \A t \in Threads : hist[t].read_failed => hist[t].exit /= "fault"

\* C23: when AcceptWaveform is True and Result() gives a non-empty text, the
\* session leaves its loop in that cycle, posts that text and no other, with
\* no minimum-utterance gate, and calls FinalResult() neither before nor
\* after.
C23_DecoderFinalPostsAndEnds ==
  \A t \in Threads :
    hist[t].exit = "final"
      => /\ hist[t].finals = 0
         /\ thr[t].pc \in AfterLoop
              => (Len(hist[t].puts) = 1 /\ hist[t].puts[1].call = "Result")

\* C24: while a session thread is alive the caller's thread performs no
\* operation on the audio stream: when the _close_stream() of
\* stop_listening() (line 154) finds a stream to stop and close, no session
\* thread is alive.
C24_CallerNeverTouchesStream ==
  [][(caller.pc = "L154" /\ caller'.pc = "L155" /\ _stream /= None)
       => AliveThreads = {}]_vars

\* C25: the result channel is a single slot written at most once per
\* session: in every reachable state the current queue holds at most one
\* transcript.
C25_AtMostOneTranscriptQueued ==
  Len(_results_q) <= 1

\* C26: on the silence-finalize path the gate measures from the first
\* non-empty partial to the finalize instant, trailing silence included: a
\* non-empty final text is posted whenever the silence check passed at least
\* min_utterance_seconds after the first partial, and therefore always when
\* end_silence_seconds >= min_utterance_seconds.
C26_GateCountsTrailingSilence ==
  \A t \in Threads :
    (/\ hist[t].exit = "silence"
     /\ thr[t].pc \in AfterLoop
     /\ Truthy(hist[t].final)
     /\ \/ end_silence_seconds >= min_utterance_seconds
        \/ (hist[t].cycle - thr[t].utterance_started) >= min_utterance_seconds)
      => (Len(hist[t].puts) >= 1 /\ hist[t].puts[1] = hist[t].final)

\* a burst shorter than min_utterance_seconds, followed by silence of
\* end_silence_seconds >= min_utterance_seconds, has passed the gate: the
\* final text is posted
C26_Witness ==
  \E t \in Threads :
    /\ ShortBurst(t)
    /\ end_silence_seconds >= min_utterance_seconds
    /\ hist[t].exit = "silence"
    /\ thr[t].pc \in AfterLoop
    /\ Truthy(hist[t].final)
    /\ hist[t].puts = <<hist[t].final>>

\* a step in which the session of thread t obtains a non-empty text from the
\* decoder (Result() of line 95, FinalResult() of line 114 or 124)
GetsText(t) ==
  \/ thr'[t].text /= thr[t].text /\ Truthy(thr'[t].text)
  \/ hist'[t].final /= hist[t].final /\ Truthy(hist'[t].final)

\* C27: a session starts with a decoder that holds nothing of earlier
\* sessions: when a session that runs with no other session alive obtains a
\* text, the decoder held no speech fed by another session.
C27_DecoderFreshPerSession ==
  [][\A t \in Threads :
       (GetsText(t) /\ AliveThreads \subseteq {t}) => _recognizer \subseteq {t}]_vars

\* the sessions launched after session t (thread numbers follow the order of
\* the launches at line 133) that have set the flag at line 75 and not ended
LaterRunning(t) ==
  {u \in Threads : u > t /\ Alive(u) /\ thr[u].pc /= "L75"}

\* C28: the finally block of a session (lines 129-131) never closes a stream
\* opened by a later session, and never sets the listening flag to false
\* while a later session is running.
C28_TeardownSparesLaterSession ==
  [][\A t \in Threads :
       /\ (thr[t].pc = "L130" /\ thr'[t].pc = "L131") => ~(_stream > t)
       /\ (thr[t].pc = "L131" /\ thr'[t].pc = "done") => LaterRunning(t) = {}
    ]_vars

\* C29: no opened stream is lost: an open (lines 161-169) never overwrites
\* an open handle in _stream, and _stream is None whenever no session thread
\* is alive and the caller is not inside stop_listening().
C29_NoStreamLost ==
  [][/\ \A t \in Threads :
          (thr[t].pc = "L161" /\ thr'[t].pc /= "L161" /\ _stream' = t)
            => _stream = None
     /\ (AliveThreads = {} /\ caller.pc \notin {"L152", "L154", "L155"})
          => _stream = None
    ]_vars

\* C30: FinalResult() is requested at most once per session (line 114 and
\* line 124 together), on every exit path.
C30_FinalResultAtMostOnce ==
  \A t \in Threads : hist[t].finals <= 1

====
